---- MODULE Spec2Model ----
(***************************************************************************)
(* Model of the WebOS client correlation engine of src/src/lib.rs:         *)
(* WebosClient::new, WebosClient::send_command and the background task     *)
(* process_messages_from_server, with the three shared mutexes             *)
(* (registered, next_command_id, pending_requests), the write half of the  *)
(* socket and the pinky_swear promise each call waits on.                  *)
(***************************************************************************)
EXTENDS Integers, Sequences, FiniteSets, TLC

\* ---------------------------------------------------------------- bounds
\* Number of logical callers sharing the one WebosClient.
NumCallers == 2
\* Cap on the number of ids handed out in one run (the u8 counter wraps at 256).
MaxAllocs == 258
\* Callers give up after this many failed Transport writes.
MaxSendFailures == 1

\* ------------------------------------------------------- program constants
\* Number of values of the u8 id (next_command_id: Arc<Mutex<u8>>).
IdSpace == 256

Callers == 1..NumCallers

VARIABLES
  boot,              \* progress of WebosClient::new
  build,             \* what u8 overflow does in this build, once it has happened
  registered,        \* Arc<Mutex<bool>>
  next_command_id,   \* Arc<Mutex<u8>>
  idLock,            \* set of callers holding the next_command_id guard
  idPoisoned,        \* next_command_id mutex poisoned by a panic under its guard
  pending_requests,  \* Arc<Mutex<HashMap<u8, Pinky>>>: id -> pinky
  tablePoisoned,     \* pending_requests mutex poisoned
  outbound,          \* messages written to the Transport, in order
  writeOpen,         \* the write half still accepts messages
  router,            \* state of the process_messages_from_server task
  pc,                \* position of each caller inside send_command
  sentId,            \* <<id>> serialised into the request of the call in progress
  promise,           \* the PinkySwear each caller awaits
  lastReturn,        \* what the latest return of send_command gave its caller
  lastIn,            \* <<item>>: the inbound item the Router handled last
  unanswered,        \* ids of requests written whose response no caller has got
  allocs,            \* number of ids handed out so far (names the pinkies)
  sendFailures       \* number of failed command writes so far

vars == <<boot, build, registered, next_command_id, idLock, idPoisoned,
          pending_requests, tablePoisoned, outbound, writeOpen, router, pc,
          sentId, promise, lastReturn, lastIn, unanswered, allocs,
          sendFailures>>

\* ------------------------------------------------------------ data shapes
NoPromise == [pinky |-> 0, resp |-> <<>>, again |-> FALSE]
NoReturn == [caller |-> {}, status |-> "none", sent |-> <<>>, resp |-> <<>>]
Failure(c, status) == [caller |-> {c}, status |-> status, sent |-> <<>>, resp |-> <<>>]

\* The fixed HANDSHAKE text and a serialised CommandRequest.
HandshakeMsg == [type |-> "register"]
\* create_command: every Command becomes {id, type: "request", uri, payload}; the
\* uri and payload depend only on the command and are left out.
create_command(id) == [type |-> "request", id |-> id]

\* A faulty conversion that keeps the integer as it is (C20 must depend on the
\* truncation).
AsWide(n) == n

\* json["id"].as_i64().unwrap() as u8: the low eight bits of the integer.
AsU8(n) == n % IdSpace

\* CommandResponse { id, payload } built by the Router from an inbound message.
CommandResponse(msg) == [id |-> AsU8(msg.id), payload |-> msg.payload]

\* Inbound items the Transport can deliver.  The payload of a response is an
\* opaque token, named here by the id its message carried.
ErrItem == [kind |-> "error"]
NonText == [kind |-> "nontext"]
BadJson == [kind |-> "badjson"]
RegisteredMsg == [kind |-> "json", type |-> "registered", hasId |-> FALSE]
NoIdMsg == [kind |-> "json", type |-> "response", hasId |-> FALSE]
ResponseMsg(n) == [kind |-> "json", type |-> "response", hasId |-> TRUE,
                   id |-> n, payload |-> n]

\* Ids the server may put in a response: the id of the latest request, the one
\* after it, and the latest id beyond the u8 range.
InboundIds == {next_command_id, next_command_id + 1, next_command_id + IdSpace}
MalformedItems == {ErrItem, NonText, BadJson, NoIdMsg}
InboundItems == MalformedItems \cup {RegisteredMsg}
                  \cup {ResponseMsg(n) : n \in InboundIds}

\* ------------------------------------------------------------------- Init
Init ==
  /\ boot = "start"
  /\ build = "unknown"
  /\ registered = FALSE
  /\ next_command_id = 0
  /\ idLock = {}
  /\ idPoisoned = FALSE
  /\ pending_requests = <<>>
  /\ tablePoisoned = FALSE
  /\ outbound = <<>>
  /\ writeOpen = TRUE
  /\ router = "unspawned"
  /\ pc = [c \in Callers |-> "idle"]
  /\ sentId = [c \in Callers |-> <<>>]
  /\ promise = [c \in Callers |-> NoPromise]
  /\ lastReturn = NoReturn
  /\ lastIn = <<>>
  /\ unanswered = {}
  /\ allocs = 0
  /\ sendFailures = 0

\* ------------------------------------------------------ WebosClient::new
\* A faulty construction that writes the handshake before it spawns the Router
\* (C18 must depend on the order of the statements of new).
ConnectWritingFirst ==
  /\ boot = "start"
  /\ \/ /\ boot' = "connect_panicked"
        /\ UNCHANGED outbound
     \/ /\ boot' = "spawned"
        /\ outbound' = Append(outbound, HandshakeMsg)
  /\ UNCHANGED <<build, registered, next_command_id, idLock, idPoisoned,
                 pending_requests, tablePoisoned, writeOpen, router, pc,
                 sentId, promise, lastReturn, lastIn, unanswered, allocs,
                 sendFailures>>

\* connect_async(url).await.expect("Failed to connect"): the task calling new
\* panics when the Transport cannot be opened; otherwise the stream is split,
\* the shared state is created and the Router task is spawned.
Connect ==
  /\ boot = "start"
  /\ \/ /\ boot' = "connect_panicked"
        /\ UNCHANGED router
     \/ /\ boot' = "spawned"
        /\ router' = "running"
  /\ UNCHANGED <<build, registered, next_command_id, idLock, idPoisoned,
                 pending_requests, tablePoisoned, outbound, writeOpen, pc,
                 sentId, promise, lastReturn, lastIn, unanswered, allocs,
                 sendFailures>>

\* write.send(Message::text(HANDSHAKE)).await.unwrap(), then Ok(WebosClient).
Handshake ==
  /\ boot = "spawned"
  /\ IF writeOpen
       THEN /\ outbound' = Append(outbound, HandshakeMsg)
            /\ boot' = "ready"
       ELSE /\ boot' = "handshake_panicked"
            /\ UNCHANGED outbound
  /\ UNCHANGED <<build, registered, next_command_id, idLock, idPoisoned,
                 pending_requests, tablePoisoned, writeOpen, router, pc,
                 sentId, promise, lastReturn, lastIn, unanswered, allocs,
                 sendFailures>>

\* ------------------------------------------------ WebosClient::send_command
\* A faulty receiver type, send_command(&self), under which calls overlap (C17
\* must depend on the exclusive borrow).
SharedBorrow(c) == TRUE

\* send_command takes &mut self: a call starts only when no other call on the
\* same client is in progress.
ExclusiveBorrow(c) == \A d \in Callers : pc[d] \in {"idle", "panicked"}

\* A faulty gate that lets every call through (C2 must depend on the gate).
GateOpen == TRUE

\* if !*self.registered.lock().unwrap() { return Err("Not registered") }
GatePasses == registered

\* A faulty Call that advances the id counter before it reads the gate (C3
\* must depend on the order of lib.rs:171-176).
CallEager(c) ==
  /\ boot = "ready"
  /\ pc[c] = "idle"
  /\ \A d \in Callers : pc[d] \in {"idle", "panicked"}
  /\ sendFailures < MaxSendFailures
  /\ next_command_id' = (next_command_id + 1) % IdSpace
  /\ IF registered
       THEN /\ pc' = [pc EXCEPT ![c] = "alloc"]
            /\ lastReturn' = NoReturn
       ELSE /\ lastReturn' = Failure(c, "NotRegistered")
            /\ UNCHANGED pc
  /\ UNCHANGED <<boot, build, registered, idLock, idPoisoned,
                 pending_requests, tablePoisoned, outbound, writeOpen, router,
                 sentId, promise, lastIn, unanswered, allocs, sendFailures>>

Call(c) ==
  /\ boot = "ready"
  /\ pc[c] = "idle"
  /\ ExclusiveBorrow(c)
  /\ sendFailures < MaxSendFailures
  /\ IF GatePasses
       THEN /\ pc' = [pc EXCEPT ![c] = "alloc"]
            /\ lastReturn' = NoReturn
       ELSE /\ lastReturn' = Failure(c, "NotRegistered")
            /\ UNCHANGED pc
  /\ UNCHANGED <<boot, build, registered, next_command_id, idLock, idPoisoned,
                 pending_requests, tablePoisoned, outbound, writeOpen, router,
                 sentId, promise, lastIn, unanswered, allocs, sendFailures>>

\* *val += 1 on a u8, when the addition does not panic.
NextId(v) == (v + 1) % IdSpace

\* What 255 + 1 can do: panic (overflow checks, the debug profile) or wrap
\* (the release profile); one build does the same every time.
OverflowOutcomes == IF build = "unknown" THEN {"debug", "release"} ELSE {build}

\* match self.next_command_id.lock() { Ok(mut val) => { *val += 1; ...
\* A poisoned mutex gives Err("Could not generate next id").  A panicking
\* addition unwinds under the guard and poisons the mutex.
Alloc(c) ==
  /\ pc[c] = "alloc"
  /\ idLock = {}
  /\ allocs < MaxAllocs
  /\ IF idPoisoned
       THEN /\ pc' = [pc EXCEPT ![c] = "idle"]
            /\ lastReturn' = Failure(c, "NoNextId")
            /\ UNCHANGED <<build, next_command_id, idLock, idPoisoned, allocs>>
       ELSE \E b \in (IF next_command_id = IdSpace - 1 THEN OverflowOutcomes
                                                      ELSE {build}) :
              /\ build' = b
              /\ IF next_command_id = IdSpace - 1 /\ b = "debug"
                   THEN /\ pc' = [pc EXCEPT ![c] = "panicked"]
                        /\ idPoisoned' = TRUE
                        /\ UNCHANGED <<next_command_id, idLock, lastReturn, allocs>>
                   ELSE /\ next_command_id' = NextId(next_command_id)
                        /\ idLock' = {c}
                        /\ allocs' = allocs + 1
                        /\ pc' = [pc EXCEPT ![c] = "send"]
                        /\ UNCHANGED <<idPoisoned, lastReturn>>
  /\ UNCHANGED <<boot, registered, pending_requests, tablePoisoned, outbound,
                 writeOpen, router, sentId, promise, lastIn, unanswered,
                 sendFailures>>

\* A faulty Write after which the call returns at once, without registering a
\* handle or awaiting the response (C4 must depend on calls being serial).
WriteAndForget(c) ==
  /\ pc[c] = "send"
  /\ IF writeOpen
       THEN /\ outbound' = Append(outbound, create_command(next_command_id))
            /\ unanswered' = unanswered \cup {next_command_id}
            /\ lastReturn' = [caller |-> {c}, status |-> "Ok",
                              sent |-> <<next_command_id>>, resp |-> <<>>]
            /\ UNCHANGED sendFailures
       ELSE /\ lastReturn' = Failure(c, "SendFailed")
            /\ sendFailures' = sendFailures + 1
            /\ UNCHANGED <<outbound, unanswered>>
  /\ pc' = [pc EXCEPT ![c] = "idle"]
  /\ idLock' = {}
  /\ UNCHANGED <<boot, build, registered, next_command_id, idPoisoned,
                 pending_requests, tablePoisoned, writeOpen, router, promise,
                 sentId, lastIn, allocs>>

\* A faulty Write that ignores the result of the send and goes on to register
\* a handle (C12 must depend on the Err arm returning early).
WriteIgnoringError(c) ==
  /\ pc[c] = "send"
  /\ IF writeOpen
       THEN /\ outbound' = Append(outbound, create_command(next_command_id))
            /\ unanswered' = unanswered \cup {next_command_id}
            /\ UNCHANGED sendFailures
       ELSE /\ sendFailures' = sendFailures + 1
            /\ UNCHANGED <<outbound, unanswered>>
  /\ sentId' = [sentId EXCEPT ![c] = <<next_command_id>>]
  /\ pc' = [pc EXCEPT ![c] = "insert"]
  /\ UNCHANGED <<boot, build, registered, next_command_id, idLock, idPoisoned,
                 pending_requests, tablePoisoned, writeOpen, router, promise,
                 lastReturn, lastIn, allocs>>

\* self.write.send(Message::text(to_string(&create_command(*val, cmd)))).await
\* Err(_) => Err("Could not send command"); the guard is dropped on return.
Write(c) ==
  /\ pc[c] = "send"
  /\ IF writeOpen
       THEN /\ outbound' = Append(outbound, create_command(next_command_id))
            /\ sentId' = [sentId EXCEPT ![c] = <<next_command_id>>]
            /\ unanswered' = unanswered \cup {next_command_id}
            /\ pc' = [pc EXCEPT ![c] = "insert"]
            /\ UNCHANGED <<idLock, lastReturn, sendFailures>>
       ELSE /\ pc' = [pc EXCEPT ![c] = "idle"]
            /\ idLock' = {}
            /\ lastReturn' = Failure(c, "SendFailed")
            /\ sendFailures' = sendFailures + 1
            /\ UNCHANGED <<outbound, sentId, unanswered>>
  /\ UNCHANGED <<boot, build, registered, next_command_id, idPoisoned,
                 pending_requests, tablePoisoned, writeOpen, router, promise,
                 lastIn, allocs>>

\* let (promise, pinky) = PinkySwear::new();
\* self.pending_requests.lock().unwrap().insert(*val, pinky);
\* The unwrap panics on a poisoned table, under the next_command_id guard.
Insert(c) ==
  /\ pc[c] = "insert"
  /\ IF tablePoisoned
       THEN /\ pc' = [pc EXCEPT ![c] = "panicked"]
            /\ idPoisoned' = TRUE
            /\ idLock' = {}
            /\ UNCHANGED <<pending_requests, promise>>
       ELSE /\ pending_requests' = (next_command_id :> allocs) @@ pending_requests
            /\ promise' = [promise EXCEPT ![c] = [pinky |-> allocs, resp |-> <<>>,
                                                    again |-> FALSE]]
            /\ pc' = [pc EXCEPT ![c] = "await"]
            /\ UNCHANGED <<idPoisoned, idLock>>
  /\ UNCHANGED <<boot, build, registered, next_command_id, tablePoisoned,
                 outbound, writeOpen, router, sentId, lastReturn, lastIn,
                 unanswered, allocs, sendFailures>>

\* promise.await is ready once the pinky has been sworn.
Resolved(c) == promise[c].resp # <<>>

\* Ok(promise.await): the call returns the first value sworn on its pinky and
\* drops the next_command_id guard.
Return(c) ==
  /\ pc[c] = "await"
  /\ Resolved(c)
  /\ lastReturn' = [caller |-> {c}, status |-> "Ok", sent |-> sentId[c],
                    resp |-> promise[c].resp]
  /\ promise' = [promise EXCEPT ![c] = NoPromise]
  /\ sentId' = [sentId EXCEPT ![c] = <<>>]
  /\ unanswered' = unanswered \ {sentId[c][1]}
  /\ idLock' = {}
  /\ pc' = [pc EXCEPT ![c] = "idle"]
  /\ UNCHANGED <<boot, build, registered, next_command_id, idPoisoned,
                 pending_requests, tablePoisoned, outbound, writeOpen, router,
                 lastIn, allocs, sendFailures>>

\* ------------------------------------------- process_messages_from_server
\* Pinky::swear: the value reaches the promise paired with the pinky; a promise
\* yields the first value sworn, and a swear on a pinky whose promise is gone
\* has no effect.  Field again records that the pinky of a promise still
\* alive was sworn once more after its first value.
Swear(pinky, response) ==
  [c \in Callers |->
     IF promise[c].pinky # pinky
       THEN promise[c]
       ELSE IF promise[c].resp = <<>>
         THEN [promise[c] EXCEPT !.resp = <<response>>]
         ELSE [promise[c] EXCEPT !.again = TRUE]]

\* The items the closure skips before looking at the JSON: Err(_) => ready(()),
\* into_text().ok() = None, serde_json::from_str fails.
Skipped(item) == item.kind # "json"

\* A faulty check that routes responses whatever the registration flag (C10
\* must depend on the check).
RoutableAlways == TRUE

\* } else if *registered.lock().unwrap() {
Routable == registered

\* A faulty test that takes every JSON message for the acknowledgment (C11
\* must depend on the test of the message type).
IsAckAny(item) == TRUE

\* if json["type"] == "registered" {
IsRegistrationAck(item) == item.type = "registered"

\* The closure of sink.for_each, run on one inbound item.
RouterRecv(item) ==
  /\ router = "running"
  /\ lastIn' = <<item>>
  /\ IF Skipped(item)
       THEN UNCHANGED <<registered, router, pending_requests, tablePoisoned, promise>>
       ELSE IF IsRegistrationAck(item)
         THEN /\ registered' = TRUE
              /\ UNCHANGED <<router, pending_requests, tablePoisoned, promise>>
         ELSE IF ~Routable
           THEN UNCHANGED <<registered, router, pending_requests, tablePoisoned, promise>>
           ELSE IF ~item.hasId
             \* json["id"].as_i64().unwrap() panics; no guard is held.
             THEN /\ router' = "panicked_id"
                  /\ UNCHANGED <<registered, pending_requests, tablePoisoned, promise>>
             ELSE IF AsU8(item.id) \notin DOMAIN pending_requests
               \* requests.get(&response.id).unwrap() panics under the table guard.
               THEN /\ router' = "panicked_get"
                    /\ tablePoisoned' = TRUE
                    /\ UNCHANGED <<registered, pending_requests, promise>>
               ELSE /\ promise' = Swear(pending_requests[AsU8(item.id)],
                                        CommandResponse(item))
                    /\ UNCHANGED <<registered, router, pending_requests, tablePoisoned>>
  /\ UNCHANGED <<boot, build, next_command_id, idLock, idPoisoned, outbound,
                 writeOpen, pc, sentId, lastReturn, unanswered, allocs,
                 sendFailures>>

\* The stream ends: for_each completes and the task returns.
RouterEnd ==
  /\ router = "running"
  /\ router' = "ended"
  /\ UNCHANGED <<boot, build, registered, next_command_id, idLock, idPoisoned,
                 pending_requests, tablePoisoned, outbound, writeOpen, pc,
                 sentId, promise, lastReturn, lastIn, unanswered, allocs,
                 sendFailures>>

\* ---------------------------------------------------------------- locks
\* The locks a call holds while suspended: the guard val of next_command_id,
\* from the match on lock() to the return.  The guards on registered and on
\* pending_requests are temporaries of one statement.
Holds(c) == IF c \in idLock THEN {"next_command_id"} ELSE {}

\* The lock the next step of a call requests.
Wants(c) ==
  CASE pc[c] = "idle" -> {"registered"}
    [] pc[c] = "alloc" -> {"next_command_id"}
    [] pc[c] = "insert" -> {"pending_requests"}
    [] OTHER -> {}

\* The locks the closure of the Router takes for one message; all its guards
\* end inside the closure, so it holds none between messages.
RouterWants == {"registered", "pending_requests"}

\* ------------------------------------------------------------- Transport
\* The write half stops accepting messages (the connection is lost).
CloseWrite ==
  /\ boot # "start"
  /\ writeOpen
  /\ writeOpen' = FALSE
  /\ UNCHANGED <<boot, build, registered, next_command_id, idLock, idPoisoned,
                 pending_requests, tablePoisoned, outbound, router, pc, sentId,
                 promise, lastReturn, lastIn, unanswered, allocs, sendFailures>>

Next ==
  \/ Connect
  \/ Handshake
  \/ \E c \in Callers : Call(c)
  \/ \E c \in Callers : Alloc(c)
  \/ \E c \in Callers : Write(c)
  \/ \E c \in Callers : Insert(c)
  \/ \E c \in Callers : Return(c)
  \/ \E item \in InboundItems : RouterRecv(item)
  \/ RouterEnd
  \/ CloseWrite

Spec == Init /\ [][Next]_vars

\* ------------------------------------------------------------- properties
Requests == {i \in 1..Len(outbound) : outbound[i].type = "request"}

\* C1: a send_command call that returns Ok returns a CommandResponse whose id
\* is the id written in that call's own request and whose payload is the
\* payload of an inbound message that carried that id.
C1_OwnResponse ==
  lastReturn.status = "Ok" =>
    /\ Len(lastReturn.resp) = 1
    /\ lastReturn.resp[1].id = lastReturn.sent[1]
    /\ lastReturn.resp[1].payload = lastReturn.sent[1]

\* C2: a command request is written to the Transport only while the
\* registration flag is true, so every request on the outbound channel comes
\* from a call that saw registered = true; and a call made once the flag is
\* true is not rejected by the gate.
C2_GateBeforeSend ==
  /\ [](Requests # {} => registered)
  /\ [][/\ Len(outbound') > Len(outbound)
             /\ outbound'[Len(outbound')].type = "request" => registered
        /\ \A c \in Callers : (registered /\ Call(c)) =>
             (pc'[c] = "alloc" /\ lastReturn'.status # "NotRegistered")]_vars

C2_Witness ==
  /\ registered
  /\ Requests # {}
  /\ \E c \in Callers : pc[c] = "insert"

\* C3: a send_command call made while the registration flag is false returns
\* the NotRegistered error and changes nothing else: the id counter is not
\* advanced, nothing is written to the Transport and the Correlation Table
\* gets no entry.
C3_RejectedCallIsInert ==
  [][\A c \in Callers : (~registered /\ Call(c)) =>
        /\ lastReturn' = Failure(c, "NotRegistered")
        /\ UNCHANGED <<next_command_id, allocs, idLock, outbound,
                       pending_requests, promise, pc, unanswered>>]_vars

C3_Witness ==
  /\ lastReturn.status = "NotRegistered"
  /\ ~registered
  /\ next_command_id = 0
  /\ Requests = {}
  /\ pending_requests = <<>>

\* C4: id allocation is collision-free: an id just handed out is not the id of
\* a request still unanswered, no two calls in progress carry the same id, and
\* the table entry of a suspended call is that call's own handle (one live
\* entry per id), also after the 8-bit counter has wrapped.
C4_NoIdCollision ==
  /\ \A c \in Callers : pc[c] = "send" => next_command_id \notin unanswered
  /\ \A c, d \in Callers :
       (c # d /\ sentId[c] # <<>> /\ sentId[d] # <<>>) => sentId[c] # sentId[d]
  /\ \A c \in Callers : pc[c] = "await" =>
       /\ sentId[c][1] \in DOMAIN pending_requests
       /\ pending_requests[sentId[c][1]] = promise[c].pinky

\* An id is handed out for the second time, after the counter wrapped.
C4_Witness ==
  /\ allocs > IdSpace
  /\ \E c \in Callers : pc[c] = "await" /\ sentId[c] = <<allocs - IdSpace>>

\* C5: no missed wakeup: when the Router handles a response carrying the id of
\* a request that has been written, the response reaches the handle of that
\* call (so the call returns it), also when the handle is not yet in the table.
C5_NoMissedWakeup ==
  [][\A c \in Callers :
       (/\ pc[c] \in {"insert", "await"}
        /\ RouterRecv(ResponseMsg(sentId[c][1])))
       => promise'[c].resp # <<>>]_vars

\* C6: with the flag true, a message whose id has no table entry does not
\* stop the Router: it is still running afterwards.
C6_UnmatchedIdTolerated ==
  [][\A item \in InboundItems :
       (/\ registered
        /\ item.kind = "json" /\ item.hasId
        /\ AsU8(item.id) \notin DOMAIN pending_requests
        /\ RouterRecv(item))
       => router' = "running"]_vars

\* C7: once the stream has ended, a call suspended on its handle is resumed:
\* its return step is enabled, so no caller stays suspended for ever.
C7_ClosedResumesWaiters ==
  \A c \in Callers : (router = "ended" /\ pc[c] = "await") => ENABLED Return(c)

\* C8: send_command is callable concurrently: while one call is suspended on
\* its handle, another caller's call can start (and go on to allocate an id
\* and send).
C8_ConcurrentCalls ==
  \A c, d \in Callers :
    (/\ c # d
     /\ pc[c] = "await" /\ pc[d] = "idle"
     /\ boot = "ready" /\ sendFailures < MaxSendFailures)
    => ENABLED Call(d)

\* C9: an inbound item that is a transport error, not text, not JSON, or JSON
\* without an integer id is dropped: the flag and the table are unchanged and
\* the Router keeps running.
C9_MalformedDropped ==
  [][\A item \in MalformedItems :
       RouterRecv(item) =>
         /\ router' = "running"
         /\ UNCHANGED <<registered, pending_requests, tablePoisoned, promise>>]_vars

\* C10: while the registration flag is false, every inbound message but the
\* 'registered' acknowledgment is dropped: the flag, the id counter, the table
\* and the handles are unchanged and the Router keeps running, so a response
\* injected early leaves no trace for the command later issued with its id.
C10_PreRegistrationDrop ==
  [][\A item \in InboundItems \ {RegisteredMsg} :
       (~registered /\ RouterRecv(item)) =>
         /\ router' = "running"
         /\ UNCHANGED <<registered, next_command_id, allocs, pending_requests,
                        tablePoisoned, promise, pc, outbound, unanswered>>]_vars

\* A response carrying id 1 has been handled before registration.
C10_Witness ==
  /\ ~registered
  /\ lastIn = <<ResponseMsg(1)>>
  /\ boot = "ready"

\* C11: the registration flag is false until the Router has been started, it
\* changes only from false to true and only when the Router handles a
\* 'registered' message, it never goes back to false, and a 'registered'
\* message handled with the flag already true changes nothing of the shared
\* state.
C11_FlagMonotonic ==
  /\ [](router = "unspawned" => ~registered)
  /\ [][/\ registered' # registered =>
             (~registered /\ registered' /\ RouterRecv(RegisteredMsg))
        /\ registered => registered'
        /\ (registered /\ RouterRecv(RegisteredMsg)) =>
             UNCHANGED <<registered, next_command_id, pending_requests,
                         tablePoisoned, promise, router, pc, outbound>>]_vars

\* A 'registered' message has been handled after a response had resolved a
\* handle, that is with the flag already true.
C11_Witness ==
  /\ registered
  /\ lastIn = <<RegisteredMsg>>
  /\ \E c \in Callers : pc[c] = "await" /\ Resolved(c)

\* C12: a call whose Transport write fails returns SendFailed and adds no table
\* entry and writes nothing; conversely every table entry is inserted by a call
\* whose request is the latest message written on the Transport, so every id
\* in the table is the id of a written request.
C12_FailedSendLeavesNoEntry ==
  /\ [](DOMAIN pending_requests \subseteq {outbound[i].id : i \in Requests})
  /\ [][/\ \A c \in Callers :
             (pc[c] = "send" /\ ~writeOpen /\ pc'[c] # pc[c]) =>
               /\ lastReturn' = Failure(c, "SendFailed")
               /\ pc'[c] = "idle"
               /\ UNCHANGED <<pending_requests, promise, outbound>>
        /\ pending_requests' # pending_requests =>
             \E c \in Callers :
               /\ pc[c] = "insert"
               /\ sentId[c] = <<next_command_id>>
               /\ outbound[Len(outbound)] = create_command(next_command_id)
               /\ pending_requests' =
                    (next_command_id :> allocs) @@ pending_requests]_vars

\* A call has returned SendFailed after earlier calls had registered handles,
\* and the id it took is not in the table.
C12_Witness ==
  /\ lastReturn.status = "SendFailed"
  /\ DOMAIN pending_requests # {}
  /\ next_command_id \notin DOMAIN pending_requests

\* C13: when the Transport cannot be opened, new returns an error value to its
\* caller (the construction ends in "connect_error", not in a panic of the
\* calling task) and does nothing else: no Router is spawned and nothing is
\* written.
C13_ConnectErrorReturned ==
  [][(boot = "start" /\ boot' # "spawned") =>
       /\ boot' = "connect_error"
       /\ router' = "unspawned"
       /\ outbound' = <<>>]_vars

\* C14: the Router removes a table entry as it resolves it: right after a
\* handle has been resolved by a response with id k, the table has no entry
\* under k.
C14_EntryRemovedOnResolve ==
  [][\A c \in Callers :
       (promise[c].resp = <<>> /\ promise'[c].resp # <<>>) =>
         promise'[c].resp[1].id \notin DOMAIN pending_requests']_vars

\* C15: a completion handle is settled once only: the Router never swears a
\* handle that it has already resolved, so a duplicate response does not
\* settle the handle of its id a second time.
C15_SettledOnce == \A c \in Callers : ~promise[c].again

\* C16: no lock is held across a suspension point: a call awaiting the
\* Transport write (pc "send") or suspended on its handle (pc "await") does
\* not hold the next_command_id lock.  (The registered and table locks are
\* taken and released within one step, by calls and by the Router alike.)
C16_NoLockAcrossSuspension ==
  \A c \in Callers : pc[c] \in {"send", "await"} => c \notin idLock

\* C17: calls and the Router cannot deadlock on the shared locks: the lock a
\* call is about to request is held by no suspended call, the locks the Router
\* takes are held by no suspended call (and the Router holds none between
\* messages), so every lock request is granted at once: the allocation step
\* and the insertion step of a call are enabled whenever the call is at them.
C17_NoLockWait ==
  /\ \A c, d \in Callers : Wants(c) \cap Holds(d) = {}
  /\ \A c \in Callers : RouterWants \cap Holds(c) = {}
  /\ \A c \in Callers :
       /\ (pc[c] = "alloc" /\ allocs < MaxAllocs) => ENABLED Alloc(c)
       /\ pc[c] = "insert" => ENABLED Insert(c)

\* A call holding the next_command_id guard requests the table lock while the
\* Router is running.
C17_Witness ==
  \E c \in Callers :
    /\ pc[c] = "insert"
    /\ Holds(c) = {"next_command_id"}
    /\ router = "running"
    /\ registered

\* C18: bootstrap order: nothing is written before the Router has been
\* started; the first outbound message is the handshake, it is the only
\* handshake ever written, every later message is a command request, and it
\* has been written by the time the construction has returned the client.
C18_BootstrapOrder ==
  /\ router = "unspawned" => outbound = <<>>
  /\ outbound # <<>> => outbound[1] = HandshakeMsg
  /\ \A i \in 2..Len(outbound) : outbound[i].type = "request"
  /\ boot = "ready" => outbound # <<>>
  /\ boot # "ready" => Len(outbound) = 0

\* The client has been constructed and a command request has been written
\* after the handshake.
C18_Witness ==
  /\ boot = "ready"
  /\ Len(outbound) >= 2
  /\ outbound[1] = HandshakeMsg
  /\ outbound[2] = create_command(1)

\* C19: a call that has passed the gate and finds the next_command_id mutex
\* sound advances the counter by exactly one, modulo 256, and goes on to write
\* with the new value: after 255 the counter wraps to 0 instead of the call
\* failing.
C19_CounterWraps ==
  [][\A c \in Callers :
       (pc[c] = "alloc" /\ ~idPoisoned /\ pc'[c] # pc[c]) =>
         /\ next_command_id' = (next_command_id + 1) % IdSpace
         /\ pc'[c] = "send"]_vars

\* C20: the Router truncates an inbound id to eight bits before the lookup: a
\* response with id n is looked up under n mod 256, so with the flag set and an
\* entry under n mod 256 the Router does not fail, a call waiting under
\* n mod 256 on that entry is resolved, and the CommandResponse delivered
\* carries the id n mod 256 (its payload token names n).
C20_InboundIdTruncated ==
  /\ [](\A c \in Callers : Resolved(c) =>
          /\ promise[c].resp[1].id \in 0..(IdSpace - 1)
          /\ promise[c].resp[1].id = promise[c].resp[1].payload % IdSpace)
  /\ [][\A n \in InboundIds :
          (/\ registered
           /\ (n % IdSpace) \in DOMAIN pending_requests
           /\ RouterRecv(ResponseMsg(n))) =>
            /\ router' = "running"
            /\ \A c \in Callers :
                 (/\ promise[c].pinky = pending_requests[n % IdSpace]
                  /\ ~Resolved(c)) =>
                   promise'[c].resp = <<[id |-> n % IdSpace, payload |-> n]>>]_vars

\* A call has returned a response whose message carried an id beyond the u8
\* range, delivered with the id truncated.
C20_Witness ==
  /\ lastReturn.status = "Ok"
  /\ lastReturn.resp # <<>>
  /\ lastReturn.resp[1].payload >= IdSpace
  /\ lastReturn.resp[1].id = lastReturn.resp[1].payload - IdSpace

====
